---------------------------- MODULE Spec2Model ----------------------------
(***************************************************************************)
(* Model of src/services/audioConverter.ts: extractAudioFromVideo, the     *)
(* client-side pipeline that decodes a media file, renders it to 16 kHz    *)
(* mono, quantizes the float samples to int16, feeds them block by block   *)
(* to an MP3 encoder and wraps the encoder's output in a File.             *)
(*                                                                         *)
(* The specifications share the module's variables:                        *)
(*   Spec      the whole invocation, one action per step of the function;  *)
(*             sample buffers are represented by their length and the      *)
(*             views passed to the encoder by their index range.           *)
(*   SpecQuant the float -> int16 loop (lines 49-54) on short buffers      *)
(*             with their contents.                                        *)
(*   SpecName  the Blob/File step (lines 82-85) on many file names.        *)
(*   SpecConc  two invocations, interleaved where the function awaits.     *)
(*   SpecUI    handleConvert of src/components/FileConverter.tsx calling   *)
(*             the function with its own progress sink.                    *)
(* FairSpec is Spec with weak fairness of the synchronous steps.           *)
(***************************************************************************)
EXTENDS Integers, Sequences, FiniteSets

(***************************************************************************)
(* Program constants                                                       *)
(***************************************************************************)
\* const sampleBlockSize = 1152
sampleBlockSize == 1152
\* "offset % (sampleBlockSize * 100) === 0"
ProgressBlocks == 100
\* s * 0x8000 (negative branch)
NegScale == 32768
\* s * 0x7FFF (non-negative branch)
PosScale == 32767

\* The value range of an Int16Array element.
Int16Min == -(2^15)
Int16Max == (2^15) - 1

(***************************************************************************)
(* Bounds of the model                                                     *)
(***************************************************************************)
\* Longest float buffer of SpecQuant.
MaxSamples == 2
\* The longest inputs have about MaxTicks * 100 blocks.
MaxTicks == 2
\* The modelled encoder's answer to encodeBuffer repeats with this period.
Period == 2
\* Longest chunk, in bytes, an encoder call returns.
MaxChunkLen == 2
\* Longest file name of SpecName, in characters.
MaxNameLen == 4

VARIABLES
    pc,            \* position of the invocation in extractAudioFromVideo
    lamejsLoaded,  \* typeof window.lamejs !== 'undefined'
    hasProgress,   \* the caller passed onProgress
    videoFile,     \* the input File: [name |-> sequence of characters]
    audioFrames,   \* audioBuffer.duration * TARGET_SAMPLE_RATE, as a length
    numSamples,    \* samples.length = int16Samples.length
    encoder,       \* the Mp3Encoder instance of this invocation
    remaining,     \* let remaining
    offset,        \* let offset
    mp3Data,       \* const mp3Data: Int8Array[]
    log,           \* every call made on a collaborator, in call order
    result,        \* the File the promise resolves with
    error,         \* the error the promise rejects with
    samples,       \* SpecQuant: Float32Array contents
    int16Samples,  \* SpecQuant: Int16Array contents
    i,             \* SpecQuant: loop index of the for loop
    parked,        \* SpecConc: the locals of the invocations that are not running
    self,          \* SpecConc: the invocation that is running
    hpc,                 \* SpecUI: position of FileConverter's handleConvert
    processingState,     \* SpecUI: [isProcessing, error], error "" for null
    conversionProgress,  \* SpecUI: the percentage shown
    selectedFile,        \* SpecUI: the component's videoFile state
    convertedFile        \* SpecUI: the component's convertedFile state

pipeVars == <<pc, lamejsLoaded, hasProgress, videoFile, audioFrames, numSamples,
              encoder, remaining, offset, mp3Data, log, result, error>>
quantVars == <<samples, int16Samples, i>>
concVars == <<parked, self>>
uiVars == <<hpc, processingState, conversionProgress, selectedFile, convertedFile>>
vars == <<pipeVars, quantVars, concVars, uiVars>>

Min(a, b) == IF a < b THEN a ELSE b
Max(a, b) == IF a > b THEN a ELSE b

(***************************************************************************)
(* The quantizer (lines 49-54)                                             *)
(*                                                                         *)
(* A JavaScript number is [nan, num, den]: NaN, or the rational num/den,   *)
(* den a power of two.  Every float of FloatValues is exactly              *)
(* representable in a Float32Array, and its products with 0x8000 and       *)
(* 0x7FFF are exact in double precision, so the arithmetic below is the    *)
(* arithmetic the program performs.                                        *)
(***************************************************************************)
NaN == [nan |-> TRUE, num |-> 0, den |-> 1]
Num(n, d) == [nan |-> FALSE, num |-> n, den |-> d]

\* -1.5, -1, -(1 - 2^-16), -43691/2^17 (about -1/3), -2^-17, 0,
\* 2^-17, 43691/2^17, 0.5, 1 - 2^-16, 1, 1.5, NaN
FloatValues ==
    { Num(-3, 2), Num(-1, 1), Num(-65535, 65536), Num(-43691, 131072),
      Num(-1, 131072), Num(0, 1), Num(1, 131072), Num(43691, 131072),
      Num(1, 2), Num(65535, 65536), Num(1, 1), Num(3, 2), NaN }

\* Math.min(1, x): NaN if x is NaN
MathMinOne(x) ==
    IF x.nan THEN NaN ELSE IF x.num > x.den THEN Num(1, 1) ELSE x
\* Math.max(-1, x): NaN if x is NaN
MathMaxMinusOne(x) ==
    IF x.nan THEN NaN ELSE IF x.num < -x.den THEN Num(-1, 1) ELSE x

\* The clamp is left out.
ClampUnclamped(x) == x
\* let s = Math.max(-1, Math.min(1, samples[i]))
Clamp(x) == MathMaxMinusOne(MathMinOne(x))

\* s < 0 ? s * 0x8000 : s * 0x7FFF   (NaN < 0 is false, NaN * k is NaN)
Scale(s) ==
    IF s.nan THEN NaN
    ELSE IF s.num < 0 THEN Num(s.num * NegScale, s.den)
         ELSE Num(s.num * PosScale, s.den)

\* The integer part of a/b, b > 0, rounding toward zero.
TruncDiv(a, b) == IF a >= 0 THEN a \div b ELSE -((-a) \div b)

\* The store rounds down instead of toward zero.
ToInt16Floor(x) ==
    IF x.nan THEN 0
    ELSE (((x.num \div x.den) - Int16Min) % 2^16) + Int16Min
\* Storing a number in an Int16Array element (ToInt16): NaN becomes 0, the
\* fraction is dropped toward zero, the integer wraps modulo 2^16.
ToInt16(x) ==
    IF x.nan THEN 0
    ELSE ((TruncDiv(x.num, x.den) - Int16Min) % 2^16) + Int16Min

\* The value the loop body stores for one sample.
QuantizeSample(x) == ToInt16(Scale(Clamp(x)))

RECURSIVE SeqsUpTo(_, _)
\* The sequences over S of length 1..n.
SeqsUpTo(S, n) ==
    IF n = 0 THEN {}
    ELSE SeqsUpTo(S, n - 1) \cup [1..n -> S]

\* const int16Samples = new Int16Array(samples.length); i = 0
InitQuant ==
    /\ samples \in SeqsUpTo(FloatValues, MaxSamples)
    /\ int16Samples = [j \in 1..Len(samples) |-> 0]
    /\ i = 0

\* One iteration of for(let i = 0; i < samples.length; i++); indices are
\* 0-based in the program and 1-based in the sequences.
QuantizeStep ==
    /\ i < Len(samples)
    /\ int16Samples' = [int16Samples EXCEPT ![i + 1] = QuantizeSample(samples[i + 1])]
    /\ i' = i + 1
    /\ UNCHANGED <<samples, pipeVars, concVars, uiVars>>

(***************************************************************************)
(* The invocation (lines 7-86)                                             *)
(***************************************************************************)
\* File names, as sequences of characters: "clip.mp4", "clip.tar.mp4".
FileNames == { <<"c", "l", "i", "p", ".", "m", "p", "4">>,
               <<"c", "l", "i", "p", ".", "t", "a", "r", ".", "m", "p", "4">> }

\* Numbers of whole blocks of the rendered buffers: none, one, two, and
\* around MaxTicks * 100 blocks.
BlockCounts ==
    {0, 1, 2} \cup {MaxTicks * ProgressBlocks + d : d \in {-1, 0, 1}}
\* Samples left over after the last whole block.
Remainders == {0, 500}
\* Lengths of the rendered buffer.  OfflineAudioContext has no length 0.
Lengths ==
    {k * sampleBlockSize + r : k \in BlockCounts, r \in Remainders} \ {0}

\* What the encoder answers to encodeBuffer: the length of the chunk it
\* returns on its n-th call is beh[n % Period], empty or MaxChunkLen bytes.
EncoderBehaviours == [0..(Period - 1) -> {0, MaxChunkLen}]

NoEncoder == [built |-> FALSE, beh |-> [n \in 0..(Period - 1) |-> 0], calls |-> 0]
NoFile == [present |-> FALSE, name |-> <<>>, type |-> "", payload |-> <<>>]

\* The ids of the concurrent invocations of SpecConc.
Invocations == {1, 2}

\* The sample counts of the concurrent invocations: less than a block, and
\* the 100 blocks at which a progress tick is due.
ConcLengths == {500, ProgressBlocks * sampleBlockSize}

\* A chunk of len bytes returned by the encoder's call number n: each byte
\* is tagged with the call and its position, so that no two bytes the
\* encoder returns are equal.
Chunk(n, len) == [j \in 1..len |-> <<n, j>>]

\* One entry of the call log.
Event(op, a, b, ret) == [op |-> op, a |-> a, b |-> b, ret |-> ret]

\* The component's state when extractAudioFromVideo is called by a caller
\* other than FileConverter: the component is not mounted.
NoCaller ==
    /\ hpc = "Detached"
    /\ processingState = [isProcessing |-> FALSE, error |-> ""]
    /\ conversionProgress = 0
    /\ selectedFile = [present |-> FALSE, name |-> <<>>]
    /\ convertedFile = NoFile

Init ==
    /\ pc = "Idle"
    /\ lamejsLoaded \in BOOLEAN
    /\ hasProgress \in BOOLEAN
    /\ videoFile \in {[name |-> n] : n \in FileNames}
    /\ audioFrames = 0
    /\ numSamples = 0
    /\ encoder = NoEncoder
    /\ remaining = 0
    /\ offset = 0
    /\ mp3Data = <<>>
    /\ log = <<>>
    /\ result = NoFile
    /\ error = ""
    /\ samples = <<>>
    /\ int16Samples = <<>>
    /\ i = 0
    /\ parked = <<>>
    /\ self = 1
    /\ NoCaller

\* The collaborator's error is caught and a generic one thrown in its place.
FailWrapped(err) ==
    /\ pc' = "Failed"
    /\ error' = "Error"
\* The promise rejects with err; nothing else of the function runs.
Fail(err) ==
    /\ pc' = "Failed"
    /\ error' = err

\* extractAudioFromVideo has been called: by a caller outside the model, or
\* by handleConvert (FileConverter.tsx line 39).
Invoked == hpc \in {"Detached", "Converting"}

\* The lamejs check is left out.
StartUnchecked ==
    /\ pc = "Idle"
    /\ Invoked
    /\ pc' = "Reading"
    /\ log' = Append(log, Event("arrayBuffer", 0, 0, <<>>))
    /\ UNCHANGED <<lamejsLoaded, hasProgress, videoFile, audioFrames, numSamples,
                   encoder, remaining, offset, mp3Data, result, error,
                   quantVars, concVars, uiVars>>
\* Lines 12-17: the lamejs check, then videoFile.arrayBuffer() is called.
Start ==
    /\ pc = "Idle"
    /\ Invoked
    /\ IF ~lamejsLoaded
       THEN /\ Fail("ConfigurationError")
            /\ UNCHANGED log
       ELSE /\ pc' = "Reading"
            /\ log' = Append(log, Event("arrayBuffer", 0, 0, <<>>))
            /\ UNCHANGED error
    /\ UNCHANGED <<lamejsLoaded, hasProgress, videoFile, audioFrames, numSamples,
                   encoder, remaining, offset, mp3Data, result,
                   quantVars, concVars, uiVars>>

\* Lines 17-21: arrayBuffer() resolves, decodeAudioData is called.
ReadDone ==
    /\ pc = "Reading"
    /\ pc' = "Decoding"
    /\ log' = Append(log, Event("decodeAudioData", 0, 0, <<>>))
    /\ UNCHANGED <<lamejsLoaded, hasProgress, videoFile, audioFrames, numSamples,
                   encoder, remaining, offset, mp3Data, result, error,
                   quantVars, concVars, uiVars>>

\* Line 17: arrayBuffer() rejects.
ReadFails ==
    /\ pc = "Reading"
    /\ Fail("ReadError")
    /\ UNCHANGED <<lamejsLoaded, hasProgress, videoFile, audioFrames, numSamples,
                   encoder, remaining, offset, mp3Data, log, result,
                   quantVars, concVars, uiVars>>

\* The frame counts a decode gives: for an invocation on its own, 0 and
\* each of Lengths; for concurrent invocations those of ConcLengths.
DecodedLengths == IF DOMAIN parked = {} THEN Lengths \cup {0} ELSE ConcLengths

\* Lines 21-38: decodeAudioData resolves with a buffer of n frames at the
\* target rate (n = audioBuffer.duration * TARGET_SAMPLE_RATE as an unsigned
\* long).  new OfflineAudioContext throws NotSupportedError for a length of
\* 0; otherwise startRendering is called.
DecodeDone ==
    /\ pc = "Decoding"
    /\ \E n \in DecodedLengths :
        LET made == Append(log, Event("OfflineAudioContext", n, 0, <<>>))
        IN  /\ audioFrames' = n
            /\ IF n = 0
               THEN /\ Fail("RenderError")
                    /\ log' = made
               ELSE /\ pc' = "Resampling"
                    /\ log' = Append(made, Event("startRendering", n, 0, <<>>))
                    /\ UNCHANGED error
    /\ UNCHANGED <<lamejsLoaded, hasProgress, videoFile, numSamples,
                   encoder, remaining, offset, mp3Data, result,
                   quantVars, concVars, uiVars>>

\* Line 21: decodeAudioData rejects.
DecodeFails ==
    /\ pc = "Decoding"
    /\ Fail("DecodeError")
    /\ UNCHANGED <<lamejsLoaded, hasProgress, videoFile, audioFrames, numSamples,
                   encoder, remaining, offset, mp3Data, log, result,
                   quantVars, concVars, uiVars>>

\* Line 38: startRendering rejects.
RenderFails ==
    /\ pc = "Resampling"
    /\ Fail("RenderError")
    /\ UNCHANGED <<lamejsLoaded, hasProgress, videoFile, audioFrames, numSamples,
                   encoder, remaining, offset, mp3Data, log, result,
                   quantVars, concVars, uiVars>>

\* Line 38: startRendering resolves with a buffer of the context's length.
RenderDone ==
    /\ pc = "Resampling"
    /\ pc' = "Quantizing"
    /\ numSamples' = audioFrames
    /\ UNCHANGED <<lamejsLoaded, hasProgress, videoFile, audioFrames,
                   encoder, remaining, offset, mp3Data, log, result, error,
                   quantVars, concVars, uiVars>>

\* Lines 42-57: the encoder is constructed, the samples are quantized into
\* int16Samples (same length), remaining and offset are initialised.
Quantize ==
    /\ pc = "Quantizing"
    /\ \E beh \in EncoderBehaviours :
        encoder' = [built |-> TRUE, beh |-> beh, calls |-> 0]
    /\ log' = Append(log, Event("Mp3Encoder", 0, 0, <<>>))
    /\ remaining' = numSamples
    /\ offset' = 0
    /\ pc' = "Encoding"
    /\ UNCHANGED <<lamejsLoaded, hasProgress, videoFile, audioFrames, numSamples,
                   mp3Data, result, error,
                   quantVars, concVars, uiVars>>

\* The loop also takes a last, short block.
LoopConditionAnyLeft(rem) == rem > 0
\* The loop leaves a last whole block unencoded.
LoopConditionStrict(rem) == rem > sampleBlockSize
\* while (remaining >= sampleBlockSize)
LoopCondition(rem) == rem >= sampleBlockSize

\* TypedArray.prototype.subarray(begin, end) of an array of len elements:
\* a view of the elements at indices [from, to), both clamped to the array.
Subarray(begin, end, len) ==
    [from |-> Min(Max(begin, 0), len), to |-> Min(Max(end, 0), len)]

\* The block size is passed where subarray takes the end index.
BlockWindowLengthAsEnd(off, len) == Subarray(off, sampleBlockSize, len)
\* int16Samples.subarray(offset, offset + sampleBlockSize)
BlockWindow(off, len) == Subarray(off, off + sampleBlockSize, len)

\* Every chunk is appended, empty or not.
PushChunkAlways(list, buf) == Append(list, buf)
\* The chunk is put in front of the list.
PushChunkFront(list, buf) == IF Len(buf) > 0 THEN <<buf>> \o list ELSE list
\* if (mp3buf.length > 0) { mp3Data.push(mp3buf); }
PushChunk(list, buf) == IF Len(buf) > 0 THEN Append(list, buf) ELSE list

\* The sink is called after every block.
ProgressDueEveryBlock(off) == off % sampleBlockSize = 0
\* offset % (sampleBlockSize * 100) === 0
ProgressDue(off) == off % (sampleBlockSize * ProgressBlocks) = 0

\* The fraction left is reported instead of the fraction done.
ProgressValueLeft(off, total) == [num |-> total - off, den |-> total]
\* The quotient is inverted.
ProgressValueInverted(off, total) == [num |-> total, den |-> off]
\* The offset is divided by the number of samples in whole blocks.
ProgressValueOfWholeBlocks(off, total) ==
    [num |-> off, den |-> total - (total % sampleBlockSize)]
\* offset / int16Samples.length, as the fraction num/den
ProgressValue(off, total) == [num |-> off, den |-> total]

\* Math.round(progress * 100) for a progress of value.num / value.den >= 0:
\* the nearest integer, a half rounded up.
RoundPercent(value) == (200 * value.num + value.den) \div (2 * value.den)

\* The body of onProgress.  handleConvert passes the arrow function of
\* FileConverter.tsx lines 39-41, which sets conversionProgress; the sink
\* of any other caller leaves the component's state alone.
ProgressSink(value, shown) ==
    IF hpc = "Converting" THEN RoundPercent(value) ELSE shown

\* An iteration that reports progress does not keep its chunk.
EncodeBlockTickSkipsPush ==
    /\ pc = "Encoding"
    /\ LoopCondition(remaining)
    /\ LET chunk == BlockWindow(offset, numSamples)
           mp3buf == Chunk(encoder.calls, encoder.beh[encoder.calls % Period])
           newOffset == offset + sampleBlockSize
           call == Event("encodeBuffer", chunk.from, chunk.to, mp3buf)
           value == ProgressValue(newOffset, numSamples)
           tick == hasProgress /\ ProgressDue(newOffset)
       IN  /\ encoder' = [encoder EXCEPT !.calls = @ + 1]
           /\ mp3Data' = IF tick THEN mp3Data ELSE PushChunk(mp3Data, mp3buf)
           /\ remaining' = remaining - sampleBlockSize
           /\ offset' = newOffset
           /\ log' = IF tick
                     THEN Append(Append(log, call),
                                 Event("onProgress", value.num, value.den, <<>>))
                     ELSE Append(log, call)
           /\ conversionProgress' = IF tick
                                    THEN ProgressSink(value, conversionProgress)
                                    ELSE conversionProgress
    /\ UNCHANGED <<pc, lamejsLoaded, hasProgress, videoFile, audioFrames,
                   numSamples, result, error,
                   quantVars, concVars,
                   hpc, processingState, selectedFile, convertedFile>>
\* Lines 60-73: one iteration of the while loop.
EncodeBlock ==
    /\ pc = "Encoding"
    /\ LoopCondition(remaining)
    /\ LET chunk == BlockWindow(offset, numSamples)
           mp3buf == Chunk(encoder.calls, encoder.beh[encoder.calls % Period])
           newOffset == offset + sampleBlockSize
           call == Event("encodeBuffer", chunk.from, chunk.to, mp3buf)
           value == ProgressValue(newOffset, numSamples)
       IN  /\ encoder' = [encoder EXCEPT !.calls = @ + 1]
           /\ mp3Data' = PushChunk(mp3Data, mp3buf)
           /\ remaining' = remaining - sampleBlockSize
           /\ offset' = newOffset
           /\ log' = IF hasProgress /\ ProgressDue(newOffset)
                     THEN Append(Append(log, call),
                                 Event("onProgress", value.num, value.den, <<>>))
                     ELSE Append(log, call)
           /\ conversionProgress' = IF hasProgress /\ ProgressDue(newOffset)
                                    THEN ProgressSink(value, conversionProgress)
                                    ELSE conversionProgress
    /\ UNCHANGED <<pc, lamejsLoaded, hasProgress, videoFile, audioFrames,
                   numSamples, result, error,
                   quantVars, concVars,
                   hpc, processingState, selectedFile, convertedFile>>

\* The function goes on to build the file without flushing the encoder.
AfterLoopNoFlush == "Assembling"
\* The statement after the loop: line 76, the flush.
AfterLoop == "Flushing"

\* Line 60: the loop condition is false.
ExitLoop ==
    /\ pc = "Encoding"
    /\ ~LoopCondition(remaining)
    /\ pc' = AfterLoop
    /\ UNCHANGED <<lamejsLoaded, hasProgress, videoFile, audioFrames, numSamples,
                   encoder, remaining, offset, mp3Data, log, result, error,
                   quantVars, concVars, uiVars>>

\* Lines 76-79: flush; the encoder returns what it has buffered, a chunk of
\* any length up to MaxChunkLen.
Flush ==
    /\ pc = "Flushing"
    /\ \E len \in 0..MaxChunkLen :
        LET mp3buf == Chunk(encoder.calls, len)
        IN  /\ mp3Data' = PushChunk(mp3Data, mp3buf)
            /\ log' = Append(log, Event("flush", 0, 0, mp3buf))
    /\ encoder' = [encoder EXCEPT !.calls = @ + 1]
    /\ pc' = "Assembling"
    /\ UNCHANGED <<lamejsLoaded, hasProgress, videoFile, audioFrames, numSamples,
                   remaining, offset, result, error,
                   quantVars, concVars, uiVars>>

RECURSIVE FlattenRange(_, _, _)
\* The bytes of parts[lo..hi], one part after the other (the first half of
\* the range, then the second half).
FlattenRange(parts, lo, hi) ==
    IF hi < lo THEN <<>>
    ELSE IF hi = lo THEN parts[lo]
    ELSE LET mid == (lo + hi) \div 2
         IN  FlattenRange(parts, lo, mid) \o FlattenRange(parts, mid + 1, hi)

\* new Blob(parts): the parts' bytes, one part after the other.
Flatten(parts) == FlattenRange(parts, 1, Len(parts))

\* The pattern is /\..+$/: everything from any '.' on matches.
ExtensionStartsAnyDot(name) ==
    {p \in 1..(Len(name) - 1) : name[p] = "."}
\* The matches of /\.[^/.]+$/ in name: a '.' followed, up to the end of the
\* name, by one or more characters other than '/' and '.'.
ExtensionStarts(name) ==
    {p \in 1..(Len(name) - 1) :
        /\ name[p] = "."
        /\ \A q \in (p + 1)..Len(name) : name[q] \notin {"/", "."}}

\* videoFile.name.replace(/\.[^/.]+$/, "") + ".mp3"
NewFileName(name) ==
    LET starts == ExtensionStarts(name)
        base == IF starts = {} THEN name
                ELSE SubSeq(name, 1, (CHOOSE p \in starts : \A q \in starts : p <= q) - 1)
    IN  base \o <<".", "m", "p", "3">>

\* The file is built only from a list that holds a chunk.
AssembleNonEmptyOnly ==
    /\ pc = "Assembling"
    /\ mp3Data # <<>>
    /\ result' = [present |-> TRUE,
                  name |-> NewFileName(videoFile.name),
                  type |-> "audio/mp3",
                  payload |-> Flatten(mp3Data)]
    /\ pc' = "Done"
    /\ UNCHANGED <<lamejsLoaded, hasProgress, videoFile, audioFrames, numSamples,
                   encoder, remaining, offset, mp3Data, log, error,
                   quantVars, concVars, uiVars>>
\* Lines 82-85: the Blob and the File.
Assemble ==
    /\ pc = "Assembling"
    /\ result' = [present |-> TRUE,
                  name |-> NewFileName(videoFile.name),
                  type |-> "audio/mp3",
                  payload |-> Flatten(mp3Data)]
    /\ pc' = "Done"
    /\ UNCHANGED <<lamejsLoaded, hasProgress, videoFile, audioFrames, numSamples,
                   encoder, remaining, offset, mp3Data, log, error,
                   quantVars, concVars, uiVars>>

Next ==
    \/ Start
    \/ ReadDone
    \/ ReadFails
    \/ DecodeDone
    \/ DecodeFails
    \/ RenderDone
    \/ RenderFails
    \/ Quantize
    \/ EncodeBlock
    \/ ExitLoop
    \/ Flush
    \/ Assemble

Spec == Init /\ [][Next]_vars

\* Lines 42-85 hold no await: once startRendering has resolved, the function
\* runs to its return without giving up control.
FairSpec == Spec /\ WF_vars(Quantize \/ EncodeBlock \/ ExitLoop \/ Flush \/ Assemble)

\* SpecQuant: the quantizer loop alone, on every buffer of 1..MaxSamples
\* floats of FloatValues.
InitQ ==
    /\ InitQuant
    /\ pc = "Quantizing"
    /\ lamejsLoaded = TRUE
    /\ hasProgress = FALSE
    /\ videoFile = [name |-> <<>>]
    /\ audioFrames = Len(samples)
    /\ numSamples = Len(samples)
    /\ encoder = NoEncoder
    /\ remaining = 0
    /\ offset = 0
    /\ mp3Data = <<>>
    /\ log = <<>>
    /\ result = NoFile
    /\ error = ""
    /\ parked = <<>>
    /\ self = 1
    /\ NoCaller

NextQ == QuantizeStep

SpecQuant == InitQ /\ [][NextQ]_vars

\* SpecConc: the invocations of Invocations, interleaved.  The variables of
\* the pipeline are the locals of the invocation that is running, self; the
\* locals of each other invocation are the record parked[k].  lamejsLoaded
\* is window.lamejs, the one global the function reads.

\* The locals of an invocation that has been called with (file, sink) and
\* has not run yet.
IdleFrame(file, sink) ==
    [pc |-> "Idle", hasProgress |-> sink, videoFile |-> file,
     audioFrames |-> 0, numSamples |-> 0, encoder |-> NoEncoder,
     remaining |-> 0, offset |-> 0, mp3Data |-> <<>>, log |-> <<>>,
     result |-> NoFile, error |-> ""]

\* The locals of the running invocation.
CurrentFrame ==
    [pc |-> pc, hasProgress |-> hasProgress, videoFile |-> videoFile,
     audioFrames |-> audioFrames, numSamples |-> numSamples,
     encoder |-> encoder, remaining |-> remaining, offset |-> offset,
     mp3Data |-> mp3Data, log |-> log, result |-> result, error |-> error]

\* The locals of invocation k.
FrameOf(k) == IF k = self THEN CurrentFrame ELSE parked[k]

\* Lines 17, 21, 38: the stages at which an invocation is not on the
\* stack: not yet called, suspended in one of the three awaits, or over.
\* Lines 42-85 have no await and run without interruption.
OffStack == {"Idle", "Reading", "Decoding", "Resampling", "Done", "Failed"}

\* mp3Data is one list of the module, which every invocation appends to.
SharedList(saved, current) == current
\* Line 47: mp3Data is a local; an invocation resumes with its own list.
OwnList(saved, current) == saved

\* The event loop resumes invocation j while the running one is suspended
\* or over.
Switch(j) ==
    /\ pc \in OffStack
    /\ j \in DOMAIN parked
    /\ parked[j].pc \notin {"Done", "Failed"}
    /\ parked' = [k \in (DOMAIN parked \ {j}) \cup {self} |->
                    IF k = self THEN CurrentFrame ELSE parked[k]]
    /\ self' = j
    /\ pc' = parked[j].pc
    /\ hasProgress' = parked[j].hasProgress
    /\ videoFile' = parked[j].videoFile
    /\ audioFrames' = parked[j].audioFrames
    /\ numSamples' = parked[j].numSamples
    /\ encoder' = parked[j].encoder
    /\ remaining' = parked[j].remaining
    /\ offset' = parked[j].offset
    /\ mp3Data' = OwnList(parked[j].mp3Data, mp3Data)
    /\ log' = parked[j].log
    /\ result' = parked[j].result
    /\ error' = parked[j].error
    /\ UNCHANGED <<lamejsLoaded, quantVars, uiVars>>

\* Invocation 1 is given a sink and clip.mp4, the others no sink and any
\* of FileNames.
InitConc ==
    /\ pc = "Idle"
    /\ lamejsLoaded \in BOOLEAN
    /\ hasProgress = TRUE
    /\ videoFile = [name |-> <<"c", "l", "i", "p", ".", "m", "p", "4">>]
    /\ audioFrames = 0
    /\ numSamples = 0
    /\ encoder = NoEncoder
    /\ remaining = 0
    /\ offset = 0
    /\ mp3Data = <<>>
    /\ log = <<>>
    /\ result = NoFile
    /\ error = ""
    /\ samples = <<>>
    /\ int16Samples = <<>>
    /\ i = 0
    /\ NoCaller
    /\ self = 1
    /\ parked \in [Invocations \ {1} ->
                    {IdleFrame([name |-> n], FALSE) : n \in FileNames}]

NextConc ==
    \/ Next
    \/ \E j \in Invocations : Switch(j)

SpecConc == InitConc /\ [][NextConc]_vars

\* SpecName: the Blob/File step alone, on every name of 1..MaxNameLen
\* characters out of a letter, '.' and '/', and on the names of FileNames.
\* The state is the one a run without a sink on 500 samples is in when
\* flush has returned an empty chunk.
NameChars == {"a", ".", "/"}

InitName ==
    /\ videoFile \in {[name |-> n] : n \in SeqsUpTo(NameChars, MaxNameLen) \cup FileNames}
    /\ pc = "Assembling"
    /\ lamejsLoaded = TRUE
    /\ hasProgress = FALSE
    /\ audioFrames = 500
    /\ numSamples = 500
    /\ encoder = [built |-> TRUE, beh |-> [n \in 0..(Period - 1) |-> 0], calls |-> 1]
    /\ remaining = 500
    /\ offset = 0
    /\ mp3Data = <<>>
    /\ log = << Event("arrayBuffer", 0, 0, <<>>),
                Event("decodeAudioData", 0, 0, <<>>),
                Event("OfflineAudioContext", 500, 0, <<>>),
                Event("startRendering", 500, 0, <<>>),
                Event("Mp3Encoder", 0, 0, <<>>),
                Event("flush", 0, 0, <<>>) >>
    /\ result = NoFile
    /\ error = ""
    /\ samples = <<>>
    /\ int16Samples = <<>>
    /\ i = 0
    /\ parked = <<>>
    /\ self = 1
    /\ NoCaller

NextName == Assemble

SpecName == InitName /\ [][NextName]_vars

\* SpecUI: FileConverter's handleConvert (FileConverter.tsx lines 29-54)
\* calling extractAudioFromVideo with its own sink.  While a run is on,
\* isProcessing disables the Convert and Remove buttons and the file input
\* is not rendered, so no other handler of the component runs.

\* The messages of lines 19 and 49.
TooLarge == "File too large. Max size for conversion is 1GB."
ConversionFailed ==
    "Conversion failed. The video might be too long or the format unsupported by your browser."

\* A file an earlier run of handleConvert has left in convertedFile.
PriorFile ==
    [present |-> TRUE, name |-> <<"o", "l", "d", ".", "m", "p", "3">>,
     type |-> "audio/mp3", payload |-> Chunk(0, 1)]

\* The states the component is in between runs, as [sel, conv, err, prog]:
\* with no file selected, convertedFile is null (Remove clears both) and
\* any message and percentage can be left over; after an upload all is
\* reset; after a successful run the file is kept with 100 and no error;
\* after a failed run (no tick comes before a failure) the error is
\* shown with 0 and any earlier converted file is still there.
IdleStates ==
    {u \in [sel : BOOLEAN, conv : {NoFile, PriorFile},
            err : {"", TooLarge, ConversionFailed}, prog : {0, 100}] :
        IF ~u.sel THEN u.conv = NoFile
        ELSE /\ u.err # TooLarge
             /\ u.prog = (IF u.conv = PriorFile /\ u.err = "" THEN 100 ELSE 0)}

InitUI ==
    /\ hpc = "Ready"
    /\ \E u \in IdleStates :
        /\ processingState = [isProcessing |-> FALSE, error |-> u.err]
        /\ conversionProgress = u.prog
        /\ convertedFile = u.conv
        /\ IF u.sel
           THEN \E n \in FileNames :
                    /\ selectedFile = [present |-> TRUE, name |-> n]
                    /\ videoFile = [name |-> n]
           ELSE /\ selectedFile = [present |-> FALSE, name |-> <<>>]
                /\ videoFile = [name |-> <<>>]
    /\ pc = "Idle"
    /\ lamejsLoaded \in BOOLEAN
    /\ hasProgress = TRUE
    /\ audioFrames = 0
    /\ numSamples = 0
    /\ encoder = NoEncoder
    /\ remaining = 0
    /\ offset = 0
    /\ mp3Data = <<>>
    /\ log = <<>>
    /\ result = NoFile
    /\ error = ""
    /\ samples = <<>>
    /\ int16Samples = <<>>
    /\ i = 0
    /\ parked = <<>>
    /\ self = 1

\* Lines 30-37: without a file the handler returns; with one it sets
\* isProcessing, clears the error and the percentage, and waits 100 ms.
HandleConvert ==
    /\ hpc = "Ready"
    /\ IF ~selectedFile.present
       THEN /\ hpc' = "Returned"
            /\ UNCHANGED <<processingState, conversionProgress>>
       ELSE /\ hpc' = "Delay"
            /\ processingState' = [isProcessing |-> TRUE, error |-> ""]
            /\ conversionProgress' = 0
    /\ UNCHANGED <<selectedFile, convertedFile, pipeVars, quantVars, concVars>>

\* Lines 37-39: the timer fires and extractAudioFromVideo is called.
TimeoutDone ==
    /\ hpc = "Delay"
    /\ hpc' = "Converting"
    /\ UNCHANGED <<processingState, conversionProgress, selectedFile,
                   convertedFile, pipeVars, quantVars, concVars>>

\* The percentage is left as the last tick set it.
FinalProgressFromTicks(shown) == shown
\* Line 44: setConversionProgress(100)
FinalProgress(shown) == 100

\* Lines 47-50: the state the catch block sets.
CatchState == [isProcessing |-> FALSE, error |-> ConversionFailed]

\* The reset replaces the whole state.
FinallyResetClearsError(prev) == [isProcessing |-> FALSE, error |-> ""]
\* Line 52: prev => ({ ...prev, isProcessing: false })
FinallyReset(prev) == [prev EXCEPT !.isProcessing = FALSE]

\* Lines 39-44 and 52: the promise resolves; the file and 100 are set, then
\* the finally block runs.
ConvertResolves ==
    /\ hpc = "Converting"
    /\ pc = "Done"
    /\ convertedFile' = result
    /\ conversionProgress' = FinalProgress(conversionProgress)
    /\ processingState' = FinallyReset(processingState)
    /\ hpc' = "Ended"
    /\ UNCHANGED <<selectedFile, pipeVars, quantVars, concVars>>

\* Lines 45-53: the promise rejects; the catch block, then the finally
\* block, whose update is applied to the state the catch block set.
ConvertRejects ==
    /\ hpc = "Converting"
    /\ pc = "Failed"
    /\ processingState' = FinallyReset(CatchState)
    /\ hpc' = "Ended"
    /\ UNCHANGED <<conversionProgress, selectedFile, convertedFile,
                   pipeVars, quantVars, concVars>>

NextUI ==
    \/ Next
    \/ HandleConvert
    \/ TimeoutDone
    \/ ConvertResolves
    \/ ConvertRejects

SpecUI == InitUI /\ [][NextUI]_vars

(***************************************************************************)
(* Properties                                                              *)
(***************************************************************************)
\* The calls of one operation, in call order.
CallsOf(op) == SelectSeq(log, LAMBDA e : e.op = op)
EncodeCalls == CallsOf("encodeBuffer")
FlushCalls == CallsOf("flush")
Ticks == CallsOf("onProgress")
\* The chunks the encoder has returned, in call order.
EncoderReturns ==
    LET calls == SelectSeq(log, LAMBDA e : e.op \in {"encodeBuffer", "flush"})
    IN  [k \in 1..Len(calls) |-> calls[k].ret]
\* The loop has been left.
LoopDone == pc \in {"Flushing", "Assembling", "Done"}

RECURSIVE FracLeq(_, _, _, _)
\* a/b <= c/d for a, c >= 0 and b, d > 0, by comparing the integer parts
\* and then the inverted fractional parts (no product is formed).
FracLeq(a, b, c, d) ==
    LET q1 == a \div b
        q2 == c \div d
        r1 == a % b
        r2 == c % d
    IN  IF q1 # q2 THEN q1 < q2
        ELSE IF r1 = 0 THEN TRUE
        ELSE IF r2 = 0 THEN FALSE
        ELSE FracLeq(d, r2, b, r1)

\* C1: every element of int16Samples lies in [-32768, 32767], whatever the
\* float, and the quantized value of -1.0 is -32768, of 1.0 is 32767, of
\* 1.5 is 32767 and of -1.5 is -32768.
C1_QuantizationRange ==
    /\ \A j \in 1..Len(int16Samples) :
        int16Samples[j] >= -32768 /\ int16Samples[j] <= 32767
    /\ \A j \in 1..i :
        /\ samples[j] = Num(-1, 1) => int16Samples[j] = -32768
        /\ samples[j] = Num(1, 1) => int16Samples[j] = 32767
        /\ samples[j] = Num(3, 2) => int16Samples[j] = 32767
        /\ samples[j] = Num(-3, 2) => int16Samples[j] = -32768

\* C1 witness: the loop has quantized a buffer holding 1.5 and -1.5.
C1_Witness ==
    /\ i = Len(samples)
    /\ \E j \in 1..i : samples[j] = Num(3, 2)
    /\ \E j \in 1..i : samples[j] = Num(-3, 2)

\* The integer nearest to p/d between 0 and p/d, d > 0.
TruncateTowardZero(p, d) ==
    LET abs == IF p < 0 THEN -p ELSE p
    IN  (IF p < 0 THEN -1 ELSE 1) * (abs \div d)

\* The value the quantizer's contract gives a real sample x: c = clamp(x,
\* -1, 1), truncate(c * 32768) if c < 0, else truncate(c * 32767).
ContractQuantized(x) ==
    LET c == IF x.num > x.den THEN Num(1, 1)
             ELSE IF x.num < -x.den THEN Num(-1, 1) ELSE x
    IN  IF c.num < 0 THEN TruncateTowardZero(c.num * 32768, c.den)
        ELSE TruncateTowardZero(c.num * 32767, c.den)

\* C2: the quantizer is a pointwise map: int16Samples has the length of
\* samples, every element the loop has written is the contract's value of
\* the sample at the same index (for a real-valued sample), and writing one
\* element leaves the others as they were.
C2_PointwiseQuantizer ==
    /\ Len(int16Samples) = Len(samples)
    /\ \A j \in 1..i :
        ~samples[j].nan => int16Samples[j] = ContractQuantized(samples[j])
    /\ \A j \in (i + 1)..Len(int16Samples) : int16Samples[j] = 0

\* C2 witness: the loop has finished on a buffer with a negative and a
\* positive sample whose scaled values have a fraction.
C2_Witness ==
    /\ i = Len(samples)
    /\ \E j \in 1..i :
        samples[j] = Num(-43691, 131072) /\ int16Samples[j] = -10922
    /\ \E j \in 1..i :
        samples[j] = Num(43691, 131072) /\ int16Samples[j] = 10922

\* C3: the k-th encodeBuffer call (k = 0, 1, ...) receives the samples at
\* indices [k*B, (k+1)*B), and once the loop is left there have been
\* exactly floor(N / B) calls.
C3_BlockWindows ==
    LET calls == EncodeCalls
    IN  /\ \A k \in 1..Len(calls) :
            /\ calls[k].a = (k - 1) * sampleBlockSize
            /\ calls[k].b = k * sampleBlockSize
        /\ LoopDone => Len(calls) = numSamples \div sampleBlockSize

\* C3 witness: a run on two blocks and a remainder has ended with two calls.
C3_Witness ==
    /\ pc = "Done"
    /\ numSamples = 2 * sampleBlockSize + 500
    /\ Len(EncodeCalls) = 2

\* C4: every window passed to encodeBuffer has exactly blockSize samples
\* and ends before the trailing N mod blockSize samples; a run on fewer
\* samples than one block calls flush and never encodeBuffer.
C4_FullBlocksOnly ==
    LET calls == EncodeCalls
    IN  /\ \A k \in 1..Len(calls) :
            /\ calls[k].b - calls[k].a = sampleBlockSize
            /\ calls[k].a >= 0
            /\ calls[k].b <= numSamples - (numSamples % sampleBlockSize)
        /\ (pc = "Done" /\ numSamples < sampleBlockSize) =>
            (Len(calls) = 0 /\ Len(FlushCalls) = 1)

\* C4 witness: a run on 500 samples has ended, with flush called.
C4_Witness ==
    /\ pc = "Done"
    /\ numSamples = 500
    /\ Len(FlushCalls) = 1

\* C5: flush is called exactly once in a run that reaches the encoding
\* stage, after the last encodeBuffer call: at most one flush, no call on
\* the encoder after it, none before the loop is left, exactly one once the
\* file is built; and between the loop's start and the flush the function
\* can always take its next step (it does not stop short of the flush).
C5_FlushExactlyOnce ==
    /\ Len(FlushCalls) <= 1
    /\ \A p \in 1..Len(log) :
        log[p].op = "flush" =>
            \A q \in (p + 1)..Len(log) : log[q].op \notin {"encodeBuffer", "flush"}
    /\ pc \in {"Assembling", "Done"} => Len(FlushCalls) = 1
    /\ pc \in {"Encoding", "Flushing"} =>
        /\ Len(FlushCalls) = 0
        /\ remaining >= 0
        /\ ENABLED (EncodeBlock \/ ExitLoop \/ Flush)

\* C5 witness: a run whose length is a multiple of the block size and whose
\* encoder returned only empty chunks has ended with one flush, the last
\* call on the encoder.
C5_Witness ==
    /\ pc = "Done"
    /\ numSamples = 2 * sampleBlockSize
    /\ \A k \in 1..Len(EncoderReturns) : EncoderReturns[k] = <<>>
    /\ Len(FlushCalls) = 1
    /\ log[Len(log)].op = "flush"

\* C6: the output payload is the chunks the encoder returned, in the order
\* of the calls, each whole and once; the flush chunk is last.
C6_PayloadInCallOrder ==
    result.present =>
        /\ result.payload = Flatten(EncoderReturns)
        /\ LET last == EncoderReturns[Len(EncoderReturns)]
           IN  SubSeq(result.payload,
                      Len(result.payload) - Len(last) + 1,
                      Len(result.payload)) = last

\* C6 witness: a file built from two non-empty block chunks and a non-empty
\* flush chunk.
C6_Witness ==
    /\ result.present
    /\ Len(EncodeCalls) = 2
    /\ Len(mp3Data) = 3
    /\ Len(FlushCalls[1].ret) > 0

\* C7: at every point mp3Data holds no empty chunk and holds every
\* non-empty chunk the encoder has returned so far, in call order.
C7_NonEmptyChunksOnly ==
    /\ \A k \in 1..Len(mp3Data) : Len(mp3Data[k]) > 0
    /\ mp3Data = SelectSeq(EncoderReturns, LAMBDA c : Len(c) > 0)

\* C7 witness: the encoder has returned an empty and a non-empty chunk from
\* encodeBuffer and an empty chunk from flush.
C7_Witness ==
    /\ pc = "Done"
    /\ \E k \in 1..Len(EncodeCalls) : Len(EncodeCalls[k].ret) = 0
    /\ \E k \in 1..Len(EncodeCalls) : Len(EncodeCalls[k].ret) > 0
    /\ Len(FlushCalls[1].ret) = 0

\* C8: the sink is called right after a window exactly when it was supplied
\* and the offset after the window is a multiple of blockSize * 100, with
\* offset / totalSamples; over a run it is called floor(N / (100 *
\* blockSize)) times.
C8_ProgressCadence ==
    /\ \A p \in 1..Len(log) :
        /\ log[p].op = "onProgress" =>
            /\ hasProgress
            /\ p > 1
            /\ log[p - 1].op = "encodeBuffer"
            /\ log[p - 1].b % (sampleBlockSize * 100) = 0
            /\ log[p].a = log[p - 1].b
            /\ log[p].b = numSamples
        /\ (log[p].op = "encodeBuffer" /\ hasProgress
                /\ log[p].b % (sampleBlockSize * 100) = 0) =>
            (p < Len(log) /\ log[p + 1].op = "onProgress")
    /\ LoopDone =>
        Len(Ticks) = IF hasProgress
                     THEN numSamples \div (100 * sampleBlockSize)
                     ELSE 0

\* C8 witness: a run with a sink on 201 blocks and a remainder has ended
\* with two ticks.
C8_Witness ==
    /\ pc = "Done"
    /\ hasProgress
    /\ numSamples = 201 * sampleBlockSize + 500
    /\ Len(Ticks) = 2

\* C9: the values passed to the sink are non-decreasing.
C9_ProgressMonotone ==
    LET ticks == Ticks
    IN  \A p \in 1..Len(ticks) : \A q \in p..Len(ticks) :
            FracLeq(ticks[p].a, ticks[p].b, ticks[q].a, ticks[q].b)

\* C9 witness: two ticks have been delivered, the second greater.
C9_Witness ==
    /\ Len(Ticks) = 2
    /\ ~FracLeq(Ticks[2].a, Ticks[2].b, Ticks[1].a, Ticks[1].b)

\* C10: every value passed to the sink is a quotient by a total greater
\* than zero and lies in [0, 1]; the offset never exceeds the total.
C10_ProgressInUnitInterval ==
    /\ offset <= numSamples
    /\ \A p \in 1..Len(Ticks) :
        /\ Ticks[p].b > 0
        /\ Ticks[p].a >= 0
        /\ Ticks[p].a <= Ticks[p].b

\* C10 witness: a tick of exactly 1 (the input is 200 blocks long).
C10_Witness ==
    /\ Len(Ticks) = 2
    /\ Ticks[2].a = Ticks[2].b
    /\ offset = numSamples

\* C11: a run on exactly k blocks, k < 100, makes k encodeBuffer calls, then
\* one flush call, never calls the sink, and ends with a file.
C11_WholeBlocksRun ==
    (numSamples > 0 /\ numSamples % 1152 = 0 /\ numSamples \div 1152 < 100) =>
        /\ Len(Ticks) = 0
        /\ pc = "Done" =>
            /\ Len(EncodeCalls) = numSamples \div 1152
            /\ Len(FlushCalls) = 1
            /\ log[Len(log)].op = "flush"
            /\ result.present

\* C11 witness: a run with a sink on 2304 samples has ended.
C11_Witness ==
    /\ pc = "Done"
    /\ hasProgress
    /\ numSamples = 2304
    /\ Len(EncodeCalls) = 2

\* C12: without lamejs the invocation fails with a configuration error
\* before anything is done: no collaborator is called, no encoder is
\* constructed, no file is produced.
C12_FailFastWithoutEncoder ==
    ~lamejsLoaded =>
        /\ pc \in {"Idle", "Failed"}
        /\ pc = "Failed" => error = "ConfigurationError"
        /\ log = <<>>
        /\ ~encoder.built
        /\ mp3Data = <<>>
        /\ ~result.present

\* C12 witness: an invocation without lamejs has failed.
C12_Witness ==
    /\ ~lamejsLoaded
    /\ pc = "Failed"
    /\ error = "ConfigurationError"

\* C13: decode and render are each attempted at most once; when one of
\* them fails the invocation fails with the error of that step, and nothing
\* after it runs: no encoder, no encodeBuffer, flush or sink call, no file.
C13_UpstreamFailurePropagates ==
    /\ Len(CallsOf("decodeAudioData")) <= 1
    /\ Len(CallsOf("OfflineAudioContext")) <= 1
    /\ Len(CallsOf("startRendering")) <= 1
    /\ (pc = "Failed" /\ log # <<>>) =>
        LET last == log[Len(log)].op
        IN  /\ last = "decodeAudioData" => error = "DecodeError"
            /\ last \in {"OfflineAudioContext", "startRendering"} =>
                error = "RenderError"
    /\ error \in {"DecodeError", "RenderError"} =>
        /\ pc = "Failed"
        /\ ~encoder.built
        /\ \A p \in 1..Len(log) :
            log[p].op \notin {"Mp3Encoder", "encodeBuffer", "flush", "onProgress"}
        /\ mp3Data = <<>>
        /\ ~result.present

\* C13 witness: startRendering has rejected.
C13_Witness ==
    /\ pc = "Failed"
    /\ error = "RenderError"
    /\ log[Len(log)].op = "startRendering"

\* The stage of the pipeline's state machine a position belongs to.  The
\* read of the file's bytes, which the decoder takes as its input, is part
\* of the decoding stage.
StageRank(p) ==
    CASE p = "Idle" -> 0
      [] p \in {"Reading", "Decoding"} -> 1
      [] p = "Resampling" -> 2
      [] p = "Quantizing" -> 3
      [] p = "Encoding" -> 4
      [] p = "Flushing" -> 5
      [] p = "Assembling" -> 6
      [] p = "Done" -> 7
      [] OTHER -> -1

\* C14: every step stays in its stage or goes to the next one in the order
\* Idle, Decoding, Resampling, Quantizing, Encoding, Flushing, Assembling,
\* Done, or fails; no step leaves Done or Failed; and quantization starts
\* only when decode and resample have completed.
C14_StageOrder ==
    /\ [](StageRank(pc) >= 3 =>
            /\ Len(CallsOf("decodeAudioData")) = 1
            /\ Len(CallsOf("startRendering")) = 1
            /\ audioFrames > 0
            /\ numSamples = audioFrames)
    /\ [][/\ pc \notin {"Done", "Failed"}
          /\ \/ pc' = "Failed"
             \/ StageRank(pc') = StageRank(pc)
             \/ StageRank(pc') = StageRank(pc) + 1]_vars

\* C14 witness: an invocation has gone through every stage.
C14_Witness ==
    /\ pc = "Done"
    /\ Len(EncodeCalls) = 2
    /\ Len(FlushCalls) = 1

\* ".mp3", "clip.mp4", "clip.mp3", "clip.tar.mp4", "clip.tar.mp3"
DotMp3 == <<".", "m", "p", "3">>
ClipMp4 == <<"c", "l", "i", "p", ".", "m", "p", "4">>
ClipMp3 == <<"c", "l", "i", "p", ".", "m", "p", "3">>
ClipTarMp4 == <<"c", "l", "i", "p", ".", "t", "a", "r", ".", "m", "p", "4">>
ClipTarMp3 == <<"c", "l", "i", "p", ".", "t", "a", "r", ".", "m", "p", "3">>

\* C16: the output name is the input name with its final extension (a '.'
\* followed, up to the end, by one or more characters other than '.' and
\* '/') replaced by ".mp3", all before it kept: clip.mp4 gives clip.mp3 and
\* clip.tar.mp4 gives clip.tar.mp3.
C16_FinalExtensionReplaced ==
    result.present =>
        LET name == videoFile.name
        IN  /\ name = ClipMp4 => result.name = ClipMp3
            /\ name = ClipTarMp4 => result.name = ClipTarMp3
            /\ \A p \in 1..(Len(name) - 1) :
                (/\ name[p] = "."
                 /\ \A q \in (p + 1)..Len(name) : name[q] # "." /\ name[q] # "/")
                    => result.name = SubSeq(name, 1, p - 1) \o DotMp3

\* C16 witness: the file of clip.tar.mp4 is named clip.tar.mp3.
C16_Witness ==
    /\ result.present
    /\ videoFile.name = ClipTarMp4
    /\ result.name = ClipTarMp3

\* C17: once flush has returned the invocation cannot fail: the file step
\* is enabled, and the run ends in Done with a file of type audio/mp3,
\* whose payload is empty when the chunk list is.
C17_AssemblyTotal ==
    /\ Len(FlushCalls) = 1 => (pc \in {"Assembling", "Done"} /\ error = "")
    /\ pc = "Assembling" => ENABLED Assemble
    /\ pc = "Done" =>
        /\ result.present
        /\ result.type = "audio/mp3"
        /\ mp3Data = <<>> => Len(result.payload) = 0

\* C17 witness: a run whose two encodeBuffer calls and flush call all
\* returned empty chunks has ended with an empty file.
C17_Witness ==
    /\ pc = "Done"
    /\ Len(EncodeCalls) = 2
    /\ \A k \in 1..Len(EncoderReturns) : Len(EncoderReturns[k]) = 0
    /\ result.payload = <<>>
    /\ result.type = "audio/mp3"

\* C18: with a sink, a tick of exactly 1 is delivered if and only if N is
\* a positive multiple of 100 * blockSize; on any other input every tick
\* is below 1; and every tick comes before the flush call.
C18_FinalTick ==
    LET ticks == Ticks
        whole == numSamples > 0 /\ numSamples % (100 * 1152) = 0
    IN  /\ \A p \in 1..Len(ticks) :
            /\ ticks[p].a = ticks[p].b => whole
            /\ ~whole => ticks[p].a < ticks[p].b
        /\ (hasProgress /\ LoopDone /\ whole) =>
            \E p \in 1..Len(ticks) : ticks[p].a = ticks[p].b
        /\ \A p \in 1..Len(log) :
            log[p].op = "onProgress" => \A q \in 1..p : log[q].op # "flush"

\* C18 witness: a run on 200 blocks has ended; its last tick was 1 and the
\* flush came after it.
C18_Witness ==
    /\ pc = "Done"
    /\ numSamples = 200 * 1152
    /\ Len(Ticks) = 2
    /\ Ticks[Len(Ticks)].a = numSamples
    /\ Ticks[Len(Ticks)].b = numSamples
    /\ log[Len(log)].op = "flush"

\* C19: in the loop and after it offset + remaining = N, offset is a
\* multiple of blockSize and remaining >= 0; each iteration makes remaining
\* smaller and the loop can always iterate or exit, so it ends; after it
\* remaining = N mod blockSize < blockSize and offset = blockSize *
\* floor(N / blockSize).
C19_LoopInvariant ==
    /\ [](StageRank(pc) >= 4 =>
            /\ offset + remaining = numSamples
            /\ offset % 1152 = 0
            /\ remaining >= 0)
    /\ [](StageRank(pc) >= 5 =>
            /\ remaining = numSamples % 1152
            /\ remaining < 1152
            /\ offset = 1152 * (numSamples \div 1152))
    /\ [](pc = "Encoding" => ENABLED (EncodeBlock \/ ExitLoop))
    /\ [][pc = "Encoding" =>
            \/ pc' = "Flushing"
            \/ pc' = "Encoding" /\ remaining' < remaining]_vars

\* C19 witness: the loop has been left on two blocks and 500 samples.
C19_Witness ==
    /\ pc = "Flushing"
    /\ numSamples = 2 * 1152 + 500
    /\ remaining = 500
    /\ offset = 2304

\* The encodeBuffer and flush calls of a log, with arguments and returns.
EncoderEvents(events) ==
    SelectSeq(events, LAMBDA e : e.op \in {"encodeBuffer", "flush"})

\* The chunks an invocation gets when it runs alone on n samples with an
\* encoder of behaviour beh whose flush returns flushLen bytes.
AloneChunks(n, beh, flushLen) ==
    LET blocks == n \div 1152
    IN  [k \in 1..(blocks + 1) |->
            IF k <= blocks THEN Chunk(k - 1, beh[(k - 1) % Period])
            ELSE Chunk(blocks, flushLen)]

\* Every invocation is over.
AllOver == \A k \in Invocations : FrameOf(k).pc \in {"Done", "Failed"}

\* C15: of concurrent invocations interleaved at their awaits, each
\* constructs one encoder, at most once, and its encoder has taken exactly
\* the calls the invocation's own log holds; an invocation that returns
\* has made one encodeBuffer call per whole block of its own samples, then
\* one flush, and its file holds the bytes and the name it gets when run
\* alone, at the time it returns and still when every invocation is over.
C15_InvocationsIsolated ==
    \A k \in Invocations :
        LET f == FrameOf(k)
            calls == EncoderEvents(f.log)
        IN  /\ Len(SelectSeq(f.log, LAMBDA e : e.op = "Mp3Encoder")) =
                    (IF f.encoder.built THEN 1 ELSE 0)
            /\ f.encoder.calls = Len(calls)
            /\ f.pc = "Done" =>
                /\ f.encoder.built
                /\ Len(calls) = (f.numSamples \div 1152) + 1
            /\ (f.pc = "Done" /\ (k = self \/ AllOver)) =>
                LET alone == AloneChunks(f.numSamples, f.encoder.beh,
                                         Len(calls[Len(calls)].ret))
                IN  /\ \A c \in 1..Len(calls) : calls[c].ret = alone[c]
                    /\ f.result.payload = Flatten(alone)
                    /\ f.result.name = NewFileName(f.videoFile.name)

\* C15 witness: two invocations on different inputs have both finished,
\* the one that was started first after the other.
C15_Witness ==
    /\ self = 1
    /\ pc = "Done"
    /\ parked[2].pc = "Done"
    /\ numSamples = 100 * 1152
    /\ parked[2].numSamples = 500
    /\ Len(result.payload) > 0
    /\ Len(parked[2].result.payload) > 0
    /\ result.name # parked[2].result.name

\* C20: two finished invocations, one with a sink and one without, on the
\* same input with the same encoder behaviour have made the same
\* encodeBuffer and flush calls with the same arguments, and have the same
\* chunks and the same file (payload, name and type).
C20_SinkIsSideChannel ==
    \A a \in Invocations : \A b \in Invocations :
        LET with == FrameOf(a)
            without == FrameOf(b)
        IN  (/\ with.pc = "Done"
             /\ without.pc = "Done"
             /\ with.hasProgress
             /\ ~without.hasProgress
             /\ with.videoFile = without.videoFile
             /\ with.numSamples = without.numSamples
             /\ with.encoder.beh = without.encoder.beh
             /\ Len(with.log[Len(with.log)].ret) = Len(without.log[Len(without.log)].ret))
            => /\ EncoderEvents(with.log) = EncoderEvents(without.log)
               /\ with.mp3Data = without.mp3Data
               /\ with.result = without.result

\* C20 witness: the invocation with a sink has delivered a tick, the one
\* without has the same input and encoder behaviour, and both have
\* finished with the same non-empty file.
C20_Witness ==
    /\ FrameOf(1).pc = "Done"
    /\ FrameOf(2).pc = "Done"
    /\ FrameOf(1).numSamples = 100 * 1152
    /\ FrameOf(2).numSamples = 100 * 1152
    /\ \E p \in 1..Len(FrameOf(1).log) : FrameOf(1).log[p].op = "onProgress"
    /\ \A p \in 1..Len(FrameOf(2).log) : FrameOf(2).log[p].op # "onProgress"
    /\ FrameOf(1).encoder.beh = FrameOf(2).encoder.beh
    /\ FrameOf(1).result = FrameOf(2).result
    /\ Len(FrameOf(1).result.payload) > 100

\* C21: a handleConvert run that started with a file ends only when the
\* pipeline has settled, and then it can end; at its end isProcessing is
\* false; after a pipeline success convertedFile is the pipeline's file and
\* conversionProgress is 100 whatever the ticks were; after a pipeline
\* failure the error is set; and convertedFile changes in no step but the
\* one that stores the file of a pipeline that succeeded.
C21_CallerSettles ==
    /\ [](hpc = "Ended" =>
            /\ pc \in {"Done", "Failed"}
            /\ ~processingState.isProcessing
            /\ pc = "Done" =>
                /\ result.present
                /\ convertedFile = result
                /\ conversionProgress = 100
            /\ pc = "Failed" => processingState.error # "")
    /\ []((hpc = "Converting" /\ pc \in {"Done", "Failed"}) =>
            ENABLED (ConvertResolves \/ ConvertRejects))
    /\ [][convertedFile' # convertedFile =>
            (pc = "Done" /\ convertedFile' = result)]_vars

\* C21 witness: a run on 199 blocks has ended well; its one tick was
\* below 1 and the percentage is 100.
C21_Witness ==
    /\ hpc = "Ended"
    /\ pc = "Done"
    /\ numSamples = 199 * 1152
    /\ Len(Ticks) = 1
    /\ Ticks[1].a < Ticks[1].b
    /\ conversionProgress = 100
    /\ convertedFile = result
    /\ ~processingState.isProcessing

=============================================================================
